---- MODULE Spec2Model ----
(***************************************************************************)
(* readelf-rs: decoding of the ELF header (src/src/elf.rs) and the run of  *)
(* the command-line program around it (src/src/main.rs).                   *)
(*                                                                         *)
(* The mapped file is the address range mem[0..63] together with the file  *)
(* length len: bytes at offsets below len are the file's, bytes at offsets *)
(* len and above are whatever an out-of-bounds read of the mapping yields  *)
(* (the code never compares an offset against len after the magic check,   *)
(* so such reads happen; their value is left unconstrained).               *)
(***************************************************************************)
EXTENDS Integers, Sequences, FiniteSets, TLC

VARIABLES host, path, len, mem, pc, result, stdout, stderr, exit, fmtPos

vars == <<host, path, len, mem, pc, result, stdout, stderr, exit, fmtPos>>

(***************************************************************************)
(* Bounds of the model                                                     *)
(***************************************************************************)
\* class and data_encoding bytes range over 0..MaxIdByte
MaxIdByte == 3
\* file lengths beyond the 64-bit header size: 64+1 .. 64+MaxExtraLen
MaxExtraLen == 1

(***************************************************************************)
(* Layout constants                                                        *)
(***************************************************************************)
ElfMagic == <<127, 69, 76, 70>>
ElfIdentSize == 16
Elf32HeaderSize == 52
Elf64HeaderSize == 64

ErrOpen == "Failed to open ELF file"
ErrMap == "Failed to memory map ELF file"
ErrMagic == "Not a valid ELF file"
ErrEndian == "ELF file endianess does not match the platform's endianess"
ErrClass == "Invalid ELF class (not 32-bit or 64-bit)"

(***************************************************************************)
(* Number formatting                                                       *)
(***************************************************************************)
HexDigits == <<"0", "1", "2", "3", "4", "5", "6", "7",
               "8", "9", "a", "b", "c", "d", "e", "f">>

\* format!("{:02x}", b) for a byte
Hex2(b) == HexDigits[(b \div 16) + 1] \o HexDigits[(b % 16) + 1]

\* "{:x}" of one byte without leading zero
Hex1(b) == IF b < 16 THEN HexDigits[b + 1] ELSE Hex2(b)

RECURSIVE HexTail(_)
HexTail(bytes) ==
    IF bytes = <<>> THEN "" ELSE Hex2(Head(bytes)) \o HexTail(Tail(bytes))

\* "{:x}" of an unsigned integer given as its bytes, most significant first
RECURSIVE LowerHex(_)
LowerHex(bytes) ==
    IF bytes = <<>> THEN "0"
    ELSE IF Head(bytes) = 0 THEN LowerHex(Tail(bytes))
    ELSE Hex1(Head(bytes)) \o HexTail(Tail(bytes))

\* quotient and remainder of a base-256 number (most significant first) by 10
RECURSIVE DivMod10(_, _, _)
DivMod10(bytes, rem, quot) ==
    IF bytes = <<>> THEN [q |-> quot, r |-> rem]
    ELSE LET cur == rem * 256 + Head(bytes)
         IN  DivMod10(Tail(bytes), cur % 10, Append(quot, cur \div 10))

IsZero(bytes) == \A k \in 1..Len(bytes) : bytes[k] = 0

RECURSIVE DecDigits(_)
DecDigits(bytes) ==
    IF IsZero(bytes) THEN ""
    ELSE LET d == DivMod10(bytes, 0, <<>>)
         IN  DecDigits(d.q) \o HexDigits[d.r + 1]

\* "{}" of an unsigned integer given as its bytes, most significant first
Decimal(bytes) == IF IsZero(bytes) THEN "0" ELSE DecDigits(bytes)

(***************************************************************************)
(* Reads of the mapping through the overlaid views                         *)
(***************************************************************************)
\* a native-endian unsigned integer of `width` bytes at offset `off`, as its
\* bytes most significant first
Native(off, width) ==
    IF host = "little"
    THEN [k \in 1..width |-> mem[off + width - k]]
    ELSE [k \in 1..width |-> mem[off + k - 1]]

\* a u16 as an integer
U16(off) == LET b == Native(off, 2) IN 256 * b[1] + b[2]

\* ElfIdent, overlaid at offset 0
IdentMagic == <<mem[0], mem[1], mem[2], mem[3]>>
IdentClass == mem[4]
IdentData == mem[5]
IdentVersion == mem[6]
IdentOsAbi == mem[7]
IdentAbiVersion == mem[8]
IdentPadding == [k \in 1..7 |-> mem[8 + k]]

\* Elf32Header / Elf64Header, overlaid at offset 0: the fields after e_ident
Elf32Fields ==
    [e_type |-> U16(16), e_machine |-> U16(18), e_version |-> Native(20, 4),
     e_entry |-> Native(24, 4), e_phoff |-> Native(28, 4),
     e_shoff |-> Native(32, 4), e_flags |-> Native(36, 4),
     e_ehsize |-> Native(40, 2), e_phentsize |-> Native(42, 2),
     e_phnum |-> Native(44, 2), e_shentsize |-> Native(46, 2),
     e_shnum |-> Native(48, 2), e_shstrndx |-> Native(50, 2)]

Elf64Fields ==
    [e_type |-> U16(16), e_machine |-> U16(18), e_version |-> Native(20, 4),
     e_entry |-> Native(24, 8), e_phoff |-> Native(32, 8),
     e_shoff |-> Native(40, 8), e_flags |-> Native(48, 4),
     e_ehsize |-> Native(52, 2), e_phentsize |-> Native(54, 2),
     e_phnum |-> Native(56, 2), e_shentsize |-> Native(58, 2),
     e_shnum |-> Native(60, 2), e_shstrndx |-> Native(62, 2)]

(***************************************************************************)
(* ElfFile::new                                                            *)
(***************************************************************************)
Failure(msg, extents) ==
    [ok |-> FALSE, err |-> msg, tag |-> "none", overlaid |-> extents]

Success(variant, extents) ==
    [ok |-> TRUE, err |-> "", tag |-> variant, overlaid |-> extents]

\* the magic comparison without the length test
MagicOkNoLength == <<mem[0], mem[1], mem[2], mem[3]>> = ElfMagic

\* mmap.len() < 4 || &mmap[0..4] != b"\x7fELF", negated
MagicOk == len >= 4 /\ <<mem[0], mem[1], mem[2], mem[3]>> = ElfMagic

\* the endianness test of a build that takes the host to be little-endian
EndianMismatchLittleOnly == IdentData # 1

\* (ident.data == 1) != cfg!(target_endian = "little")
EndianMismatch == (IdentData = 1) # (host = "little")

\* the class match with both arms overlaying the 64-bit header
SelectHeaderBoth64 ==
    CASE IdentClass = 1 ->
           [ok |-> TRUE, err |-> "", tag |-> "Elf64",
            overlaid |-> {ElfIdentSize, Elf64HeaderSize}]
      [] IdentClass = 2 ->
           [ok |-> TRUE, err |-> "", tag |-> "Elf64",
            overlaid |-> {ElfIdentSize, Elf64HeaderSize}]
      [] OTHER ->
           [ok |-> FALSE, err |-> ErrClass, tag |-> "none",
            overlaid |-> {ElfIdentSize}]

\* match ident.class { 1 => Elf32, 2 => Elf64, _ => bail }
SelectHeader ==
    CASE IdentClass = 1 ->
           Success("Elf32", {ElfIdentSize, Elf32HeaderSize})
      [] IdentClass = 2 ->
           Success("Elf64", {ElfIdentSize, Elf64HeaderSize})
      [] OTHER -> Failure(ErrClass, {ElfIdentSize})

\* the checks with the class match moved before the endianness test
DecodeClassFirst ==
    IF ~MagicOk THEN Failure(ErrMagic, {})
    ELSE IF ~SelectHeader.ok THEN SelectHeader
    ELSE IF EndianMismatch THEN Failure(ErrEndian, {ElfIdentSize})
    ELSE SelectHeader

\* the checks of ElfFile::new on the mapped file, in the code's order
Decode ==
    IF ~MagicOk THEN Failure(ErrMagic, {})
    ELSE IF EndianMismatch THEN Failure(ErrEndian, {ElfIdentSize})
    ELSE SelectHeader

ElfFileNew(openOk, mapOk) ==
    IF ~openOk THEN Failure(ErrOpen, {})
    ELSE IF ~mapOk THEN Failure(ErrMap, {})
    ELSE Decode

(***************************************************************************)
(* Display                                                                 *)
(***************************************************************************)
\* "{:#x}" of a u16
AltHex16(code) == "0x" \o LowerHex(<<code \div 256, code % 256>>)

\* impl fmt::Display for ElfType
ElfTypeLabel(code) ==
    CASE code = 0 -> "NONE (None)"
      [] code = 1 -> "REL (Relocatable file)"
      [] code = 2 -> "EXEC (Executable file)"
      [] code = 3 -> "DYN (FIXME)"
      [] code = 4 -> "CORE (Core file)"
      [] code >= 65024 /\ code <= 65279 ->
           "OS Specific: (" \o AltHex16(code) \o ")"
      [] code >= 65280 /\ code <= 65535 ->
           "Processor Specific: (" \o AltHex16(code) \o ")"
      [] OTHER -> "<unknown>: " \o AltHex16(code)

\* Display of EMachine (crate::emachine, an architecture-name table outside
\* the decoder): the entry the specification names, and the fallback label
\* for every other code
EMachineLabel(code) ==
    IF code = 62 THEN "x86-64"
    ELSE "<unknown>: (" \o AltHex16(code) \o ")"

\* .map(|b| format!("{:02x}", b)).collect::<Vec<_>>().join(" ")
RECURSIVE JoinHex(_)
JoinHex(bytes) ==
    IF bytes = <<>> THEN ""
    ELSE IF Len(bytes) = 1 THEN Hex2(bytes[1])
    ELSE Hex2(Head(bytes)) \o " " \o JoinHex(Tail(bytes))

\* self.ident.magic.iter().chain(self.ident.padding.iter())
MagicLineBytes == IdentMagic \o IdentPadding

MagicLine == "  Magic:   " \o JoinHex(MagicLineBytes)

ClassName ==
    CASE IdentClass = 1 -> "ELF32"
      [] IdentClass = 2 -> "ELF64"
      [] OTHER -> "Unknown"

ClassLine == "  Class:                             " \o ClassName

DataName ==
    CASE IdentData = 1 -> "2's complement, little endian"
      [] IdentData = 2 -> "2's complement, big endian"
      [] OTHER -> "Unknown"

DataLine == "  Data:                              " \o DataName

IdentVersionLine ==
    "  Version:                           "
        \o Decimal(<<IdentVersion>>) \o " (current)"

OsAbiLine == "  OS/ABI:                            UNIX - System V"

AbiVersionLine ==
    "  ABI Version:                       " \o Decimal(<<IdentAbiVersion>>)

\* macro display_header!, applied to the fields of the selected variant
DisplayHeader(h) ==
    << "  Type:                              " \o ElfTypeLabel(h.e_type),
       "  Machine:                           " \o EMachineLabel(h.e_machine),
       "  Version:                           " \o Decimal(h.e_version),
       "  Entry point address:               0x" \o LowerHex(h.e_entry),
       "  Start of program headers:          "
           \o Decimal(h.e_phoff) \o " (bytes into file)",
       "  Start of section headers:          "
           \o Decimal(h.e_shoff) \o " (bytes into file)",
       "  Flags:                             0x" \o LowerHex(h.e_flags),
       "  Size of this header:               "
           \o Decimal(h.e_ehsize) \o " (bytes)",
       "  Size of program headers:           "
           \o Decimal(h.e_phentsize) \o " (bytes)",
       "  Number of program headers:         " \o Decimal(h.e_phnum),
       "  Size of section headers:           "
           \o Decimal(h.e_shentsize) \o " (bytes)",
       "  Number of section headers:         " \o Decimal(h.e_shnum),
       "  Section header string table index: " \o Decimal(h.e_shstrndx) >>

\* match &self.header { Elf32(h) => display_header!(f, h), Elf64(h) => ... }
HeaderFields(tag) == IF tag = "Elf32" THEN Elf32Fields ELSE Elf64Fields

\* impl fmt::Display for ElfFile: the lines written, in order
IdentLines ==
    << "ELF Header:", MagicLine, ClassLine, DataLine, IdentVersionLine,
       OsAbiLine, AbiVersionLine >>

ReportLines(tag) == IdentLines \o DisplayHeader(HeaderFields(tag))

MappedLine == "Successfully memory-mapped ELF file: " \o path

(***************************************************************************)
(* Inputs                                                                  *)
(***************************************************************************)
Hosts == {"little", "big"}
Paths == {"a.out"}

\* file lengths around each comparison the decoder makes or omits
Lens == {0, 3, 4, 5, 6, 10, ElfIdentSize, Elf32HeaderSize - 1, Elf32HeaderSize,
         Elf64HeaderSize - 1, Elf64HeaderSize}
           \cup {Elf64HeaderSize + k : k \in 1..MaxExtraLen}

Magics == {ElfMagic, <<126, 69, 76, 70>>, <<127, 69, 76, 71>>}

IdBytes == 0..MaxIdByte

\* the two bytes of e_type, in file order
TypeBytes == {<<0, 0>>, <<1, 0>>, <<2, 0>>, <<3, 0>>, <<4, 0>>,
              <<153, 153>>, <<0, 254>>, <<254, 0>>, <<255, 255>>}

\* the first three bytes of e_entry, in file order
EntryBytes == {<<0, 0, 0>>, <<32, 16, 64>>}

\* the 64 bytes at the start of the mapping
MkMem(magic, class, data, type, entry) ==
    [i \in 0..(Elf64HeaderSize - 1) |->
        CASE i < 4 -> magic[i + 1]
          [] i = 4 -> class
          [] i = 5 -> data
          [] i = 6 -> 1
          [] i = 16 -> type[1]
          [] i = 17 -> type[2]
          [] i = 18 -> 62
          [] i = 20 -> 1
          [] i \in 24..26 -> entry[i - 23]
          [] OTHER -> 0]

(***************************************************************************)
(* The run of main                                                         *)
(***************************************************************************)
NoResult == [ok |-> FALSE, err |-> "", tag |-> "none", overlaid |-> {}]

Init ==
    /\ host \in Hosts
    /\ path \in Paths
    /\ len \in Lens
    /\ \E magic \in Magics, class \in IdBytes, data \in IdBytes,
          type \in TypeBytes, entry \in EntryBytes :
          mem = MkMem(magic, class, data, type, entry)
    /\ pc = "new"
    /\ result = NoResult
    /\ stdout = <<>>
    /\ stderr = <<>>
    /\ exit = -1
    /\ fmtPos = 0

\* main writing its first line before the result of ElfFile::new is tested
MainNewWritesFirst ==
    /\ pc = "new"
    /\ \E openOk \in BOOLEAN, mapOk \in BOOLEAN :
          result' = ElfFileNew(openOk, mapOk)
    /\ stdout' = Append(stdout, MappedLine)
    /\ IF result'.ok
       THEN /\ pc' = "mapped_line"
            /\ UNCHANGED <<stderr, exit>>
       ELSE /\ pc' = "failed"
            /\ stderr' = Append(stderr, "Error: " \o result'.err)
            /\ exit' = 1
    /\ UNCHANGED <<host, path, len, mem, fmtPos>>

\* let elf_file = ElfFile::new(path)?;
MainNew ==
    /\ pc = "new"
    /\ \E openOk \in BOOLEAN, mapOk \in BOOLEAN :
          result' = ElfFileNew(openOk, mapOk)
    /\ IF result'.ok
       THEN /\ pc' = "mapped_line"
            /\ UNCHANGED <<stderr, exit>>
       ELSE /\ pc' = "failed"
            /\ stderr' = Append(stderr, "Error: " \o result'.err)
            /\ exit' = 1
    /\ UNCHANGED <<host, path, len, mem, stdout, fmtPos>>

\* println!("Successfully memory-mapped ELF file: {}", path);
MainMappedLine ==
    /\ pc = "mapped_line"
    /\ stdout' = Append(stdout, MappedLine)
    /\ pc' = "display"
    /\ fmtPos' = 1
    /\ UNCHANGED <<host, path, len, mem, result, stderr, exit>>

\* println!("{}", elf_file): one writeln! of Display::fmt
FmtWriteln ==
    /\ pc = "display"
    /\ fmtPos <= Len(ReportLines(result.tag))
    /\ stdout' = Append(stdout, ReportLines(result.tag)[fmtPos])
    /\ fmtPos' = fmtPos + 1
    /\ UNCHANGED <<host, path, len, mem, pc, result, stderr, exit>>

\* println!("{}", elf_file): the newline println! adds after Display::fmt
MainNewline ==
    /\ pc = "display"
    /\ fmtPos > Len(ReportLines(result.tag))
    /\ stdout' = Append(stdout, "")
    /\ pc' = "return"
    /\ UNCHANGED <<host, path, len, mem, result, stderr, exit, fmtPos>>

\* Ok(())
MainReturn ==
    /\ pc = "return"
    /\ pc' = "done"
    /\ exit' = 0
    /\ UNCHANGED <<host, path, len, mem, result, stdout, stderr, fmtPos>>

Next ==
    \/ MainNew
    \/ MainMappedLine
    \/ FmtWriteln
    \/ MainNewline
    \/ MainReturn

Spec == Init /\ [][Next]_vars

TypeOK ==
    /\ host \in Hosts
    /\ len \in Nat
    /\ pc \in {"new", "failed", "mapped_line", "display", "return", "done"}
    /\ exit \in {-1, 0, 1}
    /\ result.tag \in {"none", "Elf32", "Elf64"}

(***************************************************************************)
(* Properties                                                              *)
(***************************************************************************)
\* the mapped file: the first len bytes of the mapping (Mmap, &mmap[..])
Buffer == [i \in 1..(IF len < Elf64HeaderSize THEN len ELSE Elf64HeaderSize)
              |-> mem[i - 1]]

\* ElfFile::new has returned and had a buffer to decode
Decoded == pc # "new" /\ result.err \notin {ErrOpen, ErrMap}

StartsWithMagic == Len(Buffer) >= 4 /\ SubSeq(Buffer, 1, 4) = ElfMagic

\* the data_encoding value naming the host's byte order, and the other one
NativeEncoding == IF host = "little" THEN 1 ELSE 2
ForeignEncoding == IF host = "little" THEN 2 ELSE 1

HeaderSizeOfClass(class) == IF class = 1 THEN Elf32HeaderSize ELSE Elf64HeaderSize

\* the file holds the whole header of the variant its class byte selects
WholeHeader == len >= HeaderSizeOfClass(mem[4])

Contains(s, sub) ==
    \E i \in 1..(Len(s) - Len(sub) + 1) : SubSeq(s, i, i + Len(sub) - 1) = sub

\* the labels of the report's lines, in the order the specification fixes
ReportLabels ==
    << "ELF Header:", "  Magic:", "  Class:", "  Data:", "  Version:",
       "  OS/ABI:", "  ABI Version:", "  Type:", "  Machine:", "  Version:",
       "  Entry point address:", "  Start of program headers:",
       "  Start of section headers:", "  Flags:", "  Size of this header:",
       "  Size of program headers:", "  Number of program headers:",
       "  Size of section headers:", "  Number of section headers:",
       "  Section header string table index:" >>

\* line `s` starts with `label`
StartsWith(s, label) ==
    Len(s) >= Len(label) /\ SubSeq(s, 1, Len(label)) = label

\* C1: a buffer that does not start with the four magic bytes (a buffer
\* shorter than 4 bytes included) makes ElfFile::new fail with "Not a valid
\* ELF file", whatever its length, class and data_encoding; no header is
\* produced.
C1_BadMagic ==
    (Decoded /\ ~StartsWithMagic) =>
        /\ ~result.ok
        /\ result.err = ErrMagic
        /\ result.tag = "none"
        /\ result.overlaid = {}

\* C1 happens: a buffer too short to hold the magic, in a mapping whose first
\* four bytes read as the magic, has been rejected
C1_Witness ==
    /\ Decoded
    /\ len < 4
    /\ IdentMagic = ElfMagic
    /\ result.err = ErrMagic

\* C2: a buffer with valid magic, class in {1,2} and the host's
\* data_encoding, shorter than the header of the selected variant, makes
\* ElfFile::new fail, and no view is overlaid past the end of the buffer.
C2_Truncated ==
    (/\ Decoded
     /\ StartsWithMagic
     /\ len >= 6
     /\ Buffer[5] \in {1, 2}
     /\ Buffer[6] = NativeEncoding
     /\ len < HeaderSizeOfClass(Buffer[5])) =>
        /\ ~result.ok
        /\ \A extent \in result.overlaid : extent <= len

C4_EndiannessMismatch ==
    (/\ Decoded
     /\ StartsWithMagic
     /\ len >= 6
     /\ Buffer[5] \in {1, 2}
     /\ Buffer[6] = ForeignEncoding) =>
        /\ ~result.ok
        /\ result.err = ErrEndian
        /\ result.tag = "none"
        /\ stdout = <<>>

\* C4 happens: a big-endian host has rejected a little-endian file
C4_Witness ==
    /\ Decoded
    /\ host = "big"
    /\ StartsWithMagic
    /\ len >= Elf64HeaderSize
    /\ Buffer[5] = 2
    /\ Buffer[6] = 1
    /\ result.err = ErrEndian

\* C5: on either host, no header is returned for a file whose data_encoding
\* byte is outside {1,2}, and the Data line of a report is never "Unknown"
\* (checked on the files that hold their whole header).
C5_DataEncodingValid ==
    WholeHeader =>
        /\ (pc # "new" /\ result.ok) => Buffer[6] \in {1, 2}
        /\ \A k \in 1..Len(stdout) : ~Contains(stdout[k], "Unknown")

\* C6: no partial success. A failed ElfFile::new ends the run in failure with
\* nothing on standard output; anything on standard output was written after
\* a successful decode; a finished run has written every line of the report.
C6_NoPartialSuccess ==
    /\ (pc # "new" /\ ~result.ok) =>
          /\ pc = "failed"
          /\ stdout = <<>>
          /\ exit = 1
          /\ result.err \in {ErrOpen, ErrMap, ErrMagic, ErrEndian, ErrClass}
          /\ stderr = <<"Error: " \o result.err>>
    /\ stdout # <<>> => (result.ok /\ stderr = <<>>)
    /\ pc = "done" =>
          /\ exit = 0
          /\ \E first \in 1..Len(stdout) :
                /\ Len(stdout) >= first + Len(ReportLabels) - 1
                /\ \A k \in 1..Len(ReportLabels) :
                      StartsWith(stdout[first + k - 1], ReportLabels[k])

\* C6 happens: a run has failed at the last check of ElfFile::new
C6_Witness ==
    /\ pc = "failed"
    /\ result.err = ErrClass
    /\ stdout = <<>>

\* C7: after a successful decode the variant is Elf32 exactly when class = 1
\* and Elf64 exactly when class = 2, whatever the other bytes are, at every
\* later point of the run; the Class line names that variant, and the fields
\* are printed through that variant's layout.
C7_VariantFromClass ==
    (pc # "new" /\ result.ok) =>
        /\ result.tag \in {"Elf32", "Elf64"}
        /\ result.tag = "Elf32" <=> mem[4] = 1
        /\ result.tag = "Elf64" <=> mem[4] = 2
        /\ Len(stdout) >= 4 =>
              /\ ~Contains(stdout[4], "Unknown")
              /\ Contains(stdout[4], "ELF32") <=> result.tag = "Elf32"
              /\ Contains(stdout[4], "ELF64") <=> result.tag = "Elf64"
        /\ Len(stdout) >= 12 =>
              stdout[12] = "  Entry point address:               0x"
                  \o LowerHex(Native(24, IF result.tag = "Elf32" THEN 4 ELSE 8))

\* C7 happens: a 32-bit file has been reported in full
C7_Witness ==
    /\ pc = "done"
    /\ result.tag = "Elf32"
    /\ mem[4] = 1

\* the label table of the specification for the object type
TableLabel(code) ==
    CASE code = 0 -> "NONE (no file type)"
      [] code = 1 -> "REL (relocatable file)"
      [] code = 3 -> "DYN (shared object file)"
      [] code = 4 -> "CORE (core file)"
      [] code >= 65024 /\ code <= 65279 ->
           "OS-specific: (" \o AltHex16(code) \o ")"
      [] code >= 65280 /\ code <= 65535 ->
           "Processor-specific: (" \o AltHex16(code) \o ")"
      [] OTHER -> "<unknown>: (" \o AltHex16(code) \o ")"

\* C8: the Type line of every report shows the label the specification's
\* table gives for the type code read: a label containing EXEC for code 2,
\* the table's text for 0, 1, 3, 4 and the two ranges, and
\* "<unknown>: (0x<code>)" for every other code (checked on the files that
\* hold their whole header).
C8_TypeLabels ==
    (WholeHeader /\ Len(stdout) >= 9) =>
        LET code == HeaderFields(result.tag).e_type
            label == SubSeq(stdout[9], 38, Len(stdout[9]))
        IN  IF code = 2 THEN Contains(label, "EXEC")
            ELSE label = TableLabel(code)

\* C9: the Magic line of every report is the hex dump of all 16 bytes of the
\* identification area, in file order, two hex digits each (checked on the
\* files that hold their whole header).
C9_MagicAllBytes ==
    (WholeHeader /\ Len(stdout) >= 3) =>
        stdout[3] = "  Magic:   " \o JoinHex(SubSeq(Buffer, 1, ElfIdentSize))

\* C10: standard output begins with the line "ELF Header:", and the field
\* lines follow it in the fixed order (checked on the files that hold their
\* whole header).
C10_HeaderLineFirst ==
    (WholeHeader /\ stdout # <<>>) =>
        /\ stdout[1] = "ELF Header:"
        /\ \A k \in 1..Len(ReportLabels) :
              k <= Len(stdout) => StartsWith(stdout[k], ReportLabels[k])

====
